---- MODULE Spec2Model ----
(***************************************************************************)
(* A model of src/main.py: class URL, a minimal HTTP/1.1 client on raw     *)
(* sockets.  Text (Python str) is a sequence of characters, bytes a        *)
(* sequence of byte values; both are written as one-element strings.  An   *)
(* ASCII character and its byte share a name; the non-ASCII character      *)
(* "U+00E9" is the two bytes "0xC3" "0xA9" in UTF-8.                        *)
(***************************************************************************)
EXTENDS Integers, Sequences, FiniteSets, TLC

VARIABLES
  pc,        \* position of the exchange in URL.request
  self,      \* the URL object: url_string, scheme, host, port, path, query, fragment
  args,      \* the caller's inputs: url_string, data, content_type, and the calls it makes
  net,       \* the environment: outcome of connect and send, the peer's byte stream
  calls,     \* request() calls started so far
  local,     \* locals method, data, content_type, host, path, port of request()
  sock,      \* the socket of the current call: "none", "open", "closed"
  fds,       \* sockets created / closed so far: [opened, closed]
  request,   \* local request (text) of request()
  wire,      \* bytes the transport accepted from sock.send
  sends,     \* sock.send calls of the current call
  rpos,      \* bytes of the peer's stream consumed by response_file
  status_line, headers, framing, chunk_size, body,   \* locals of request()
  result,    \* the returned dict, or None
  raised     \* the exception that left request() or URL(), or None: its class, its
             \* message, and the class of the exception it was raised from

vars == <<pc, self, args, net, calls, local, sock, fds, request, wire, sends,
          rpos, status_line, headers, framing, chunk_size, body, result, raised>>

\* None where text is expected, where an integer is expected (an integer n is <<n>>),
\* where request data is expected, and where an exception is expected
None == <<"None">>
NoInt == <<>>
NoData == [kind |-> "None", text |-> <<>>, items |-> <<>>]
NoException == [type |-> "None", msg |-> "", cause |-> "None"]

\* request() calls made on one URL object
MaxCalls == 2

\* the default of content_type, lines 103 and 107
DefaultContentType == <<"a", "p", "p", "l", "i", "c", "a", "t", "i", "o", "n", "/", "x", "-", "w", "w", "w", "-", "f", "o", "r", "m", "-", "u", "r", "l", "e", "n", "c", "o", "d", "e", "d">>

-----------------------------------------------------------------------------
(* Python str / bytes primitives                                           *)

\* the characters str.strip() and str.split() treat as whitespace
Whitespace == {" ", "\t", "\n", "\r"}

RECURSIVE lstrip(_)
lstrip(s) == IF s # <<>> /\ Head(s) \in Whitespace THEN lstrip(Tail(s)) ELSE s

RECURSIVE rstrip(_)
rstrip(s) ==
  IF s # <<>> /\ s[Len(s)] \in Whitespace THEN rstrip(SubSeq(s, 1, Len(s) - 1)) ELSE s

\* str.strip()
strip(s) == rstrip(lstrip(s))

\* s[i:] and s[:i] for 0 <= i
From(s, i) == SubSeq(s, i + 1, Len(s))
Upto(s, i) == SubSeq(s, 1, i)

MatchAt(s, sub, i) == i + Len(sub) <= Len(s) /\ SubSeq(s, i + 1, i + Len(sub)) = sub

\* str.find(sub): the 0-based index of the first occurrence, or -1
find(s, sub) ==
  IF \E i \in 0..Len(s) : MatchAt(s, sub, i)
  THEN CHOOSE i \in 0..Len(s) : MatchAt(s, sub, i) /\ \A j \in 0..(i - 1) : ~MatchAt(s, sub, j)
  ELSE -1

\* sub in s
contains(s, sub) == find(s, sub) # -1

\* s.split(sep, 1) when sep occurs in s, and s.split(sep)[0]
split1(s, sep) == <<Upto(s, find(s, sep)), From(s, find(s, sep) + Len(sep))>>
splitFirst(s, sep) == IF contains(s, sep) THEN Upto(s, find(s, sep)) ELSE s

\* s.split(): the maximal runs of non-whitespace characters
RECURSIVE split(_)
split(s) ==
  LET t == lstrip(s)
      n == IF \E i \in 1..Len(t) : t[i] \in Whitespace
           THEN (CHOOSE i \in 1..Len(t) : t[i] \in Whitespace /\ \A j \in 1..(i - 1) : t[j] \notin Whitespace) - 1
           ELSE Len(t)
  IN IF t = <<>> THEN <<>> ELSE <<Upto(t, n)>> \o split(From(t, n))

UpperCase == <<"A", "B", "C", "D", "E", "F", "G", "H", "I", "J", "K", "L", "M", "N", "O", "P", "Q", "R", "S", "T", "U", "V", "W", "X", "Y", "Z">>
LowerCase == <<"a", "b", "c", "d", "e", "f", "g", "h", "i", "j", "k", "l", "m", "n", "o", "p", "q", "r", "s", "t", "u", "v", "w", "x", "y", "z">>

lowerChar(c) ==
  IF \E i \in 1..Len(UpperCase) : UpperCase[i] = c
  THEN LowerCase[CHOOSE i \in 1..Len(UpperCase) : UpperCase[i] = c]
  ELSE c

\* str.lower()
lower(s) == [i \in 1..Len(s) |-> lowerChar(s[i])]

DecDigits == <<"0", "1", "2", "3", "4", "5", "6", "7", "8", "9">>
HexDigits == <<"0", "1", "2", "3", "4", "5", "6", "7", "8", "9", "a", "b", "c", "d", "e", "f">>

digitValue(c, base) ==
  LET d == lowerChar(c)
  IN IF \E i \in 1..base : HexDigits[i] = d
     THEN (CHOOSE i \in 1..base : HexDigits[i] = d) - 1
     ELSE -1

RECURSIVE digitsValue(_, _)
digitsValue(s, base) ==
  IF s = <<>> THEN 0
  ELSE digitsValue(Upto(s, Len(s) - 1), base) * base + digitValue(s[Len(s)], base)

\* int(s) and int(s, 16): surrounding whitespace, one sign, for base 16 a 0x prefix,
\* then one or more digits; anything else is a ValueError (ok = FALSE)
int(s, base) ==
  LET t == strip(s)
      signed == t # <<>> /\ Head(t) \in {"+", "-"}
      u == IF signed THEN Tail(t) ELSE t
      prefixed == base = 16 /\ Len(u) >= 2 /\ u[1] = "0" /\ u[2] \in {"x", "X"}
      d == IF prefixed THEN From(u, 2) ELSE u
      ok == d # <<>> /\ \A i \in 1..Len(d) : digitValue(d[i], base) # -1
      v == IF ok THEN digitsValue(d, base) ELSE 0
  IN [ok |-> ok, val |-> IF signed /\ Head(t) = "-" THEN 0 - v ELSE v]

\* str(n) for an integer n
RECURSIVE str(_)
str(n) ==
  IF n < 0 THEN <<"-">> \o str(0 - n)
  ELSE IF n < 10 THEN <<DecDigits[n + 1]>>
  ELSE str(n \div 10) \o <<DecDigits[(n % 10) + 1]>>

\* str.encode('utf-8'), character by character; the text is halved rather than
\* walked so that a long request does not nest deeply
RECURSIVE encode(_)
encode(s) ==
  IF s = <<>> THEN <<>>
  ELSE IF Len(s) = 1
       THEN (IF s[1] = "U+00E9" THEN <<"0xC3", "0xA9">> ELSE s)
       ELSE encode(Upto(s, Len(s) \div 2)) \o encode(From(s, Len(s) \div 2))

\* bytes.decode('utf-8', errors='ignore'): a lead byte not followed by its
\* continuation byte, and a continuation byte with no lead, are dropped; the
\* bytes are halved at a place that does not part a lead from its continuation
RECURSIVE decode(_)
decode(b) ==
  LET h == Len(b) \div 2
      m == IF b[h] = "0xC3" /\ b[h + 1] = "0xA9" THEN h + 1 ELSE h
  IN IF b = <<>> THEN <<>>
     ELSE IF Len(b) = 1 THEN (IF b[1] \in {"0xC3", "0xA9"} THEN <<>> ELSE b)
     ELSE IF b = <<"0xC3", "0xA9">> THEN <<"U+00E9">>
     ELSE IF Len(b) = 2 THEN decode(<<b[1]>>) \o decode(<<b[2]>>)
     ELSE decode(Upto(b, m)) \o decode(From(b, m))

\* "sep".join(parts)
RECURSIVE join(_, _)
join(sep, parts) ==
  IF parts = <<>> THEN <<>>
  ELSE IF Len(parts) = 1 THEN parts[1]
  ELSE parts[1] \o sep \o join(sep, Tail(parts))

RECURSIVE concat(_)
concat(parts) == IF parts = <<>> THEN <<>> ELSE Head(parts) \o concat(Tail(parts))

-----------------------------------------------------------------------------
(* class URL: construction and parsing, lines 5-81                         *)

\* parse_scheme comparing the scheme as written, without lower-casing it
parse_scheme_case_sensitive(url_string) ==
  LET scheme_index == find(url_string, <<":", "/", "/">>)
      scheme == Upto(url_string, scheme_index)
  IN IF scheme_index = -1 THEN [ok |-> TRUE, scheme |-> <<"h", "t", "t", "p">>]
     ELSE IF scheme \in {<<"h", "t", "t", "p">>, <<"h", "t", "t", "p", "s">>} THEN [ok |-> TRUE, scheme |-> scheme]
     ELSE [ok |-> FALSE, scheme |-> scheme]

\* URL.parse_scheme, for a non-empty url_string; ok = FALSE is the ValueError
parse_scheme(url_string) ==
  LET scheme_index == find(url_string, <<":", "/", "/">>)
      scheme == lower(Upto(url_string, scheme_index))
  IN IF scheme_index = -1 THEN [ok |-> TRUE, scheme |-> <<"h", "t", "t", "p">>]
     ELSE IF scheme \in {<<"h", "t", "t", "p">>, <<"h", "t", "t", "p", "s">>} THEN [ok |-> TRUE, scheme |-> scheme]
     ELSE [ok |-> FALSE, scheme |-> scheme]

\* parse_host_and_path taking the path from after the first slash
parse_host_and_path_after_slash(url_string) ==
  LET scheme_index == find(url_string, <<":", "/", "/">>)
      url_without_scheme ==
        IF scheme_index # -1 THEN From(url_string, scheme_index + 3) ELSE url_string
      first_slash_index == find(url_without_scheme, <<"/">>)
      host0 == IF first_slash_index = -1 THEN url_without_scheme
               ELSE Upto(url_without_scheme, first_slash_index)
      path == IF first_slash_index = -1 THEN <<"/">>
              ELSE From(url_without_scheme, first_slash_index + 1)
      host1 == splitFirst(host0, <<"?">>)
      host2 == splitFirst(host1, <<"#">>)
  IN [host |-> host2, path |-> path]

\* parse_host_and_path cutting the host at "?" only
parse_host_and_path_query_only(url_string) ==
  LET scheme_index == find(url_string, <<":", "/", "/">>)
      url_without_scheme ==
        IF scheme_index # -1 THEN From(url_string, scheme_index + 3) ELSE url_string
      first_slash_index == find(url_without_scheme, <<"/">>)
      host0 == IF first_slash_index = -1 THEN url_without_scheme
               ELSE Upto(url_without_scheme, first_slash_index)
      path == IF first_slash_index = -1 THEN <<"/">>
              ELSE From(url_without_scheme, first_slash_index)
      host1 == splitFirst(host0, <<"?">>)
      host2 == host1
  IN [host |-> host2, path |-> path]

\* URL.parse_host_and_path, for a non-empty url_string
parse_host_and_path(url_string) ==
  LET scheme_index == find(url_string, <<":", "/", "/">>)
      url_without_scheme ==
        IF scheme_index # -1 THEN From(url_string, scheme_index + 3) ELSE url_string
      first_slash_index == find(url_without_scheme, <<"/">>)
      host0 == IF first_slash_index = -1 THEN url_without_scheme
               ELSE Upto(url_without_scheme, first_slash_index)
      path == IF first_slash_index = -1 THEN <<"/">>
              ELSE From(url_without_scheme, first_slash_index)
      host1 == splitFirst(host0, <<"?">>)
      host2 == splitFirst(host1, <<"#">>)
  IN [host |-> host2, path |-> path]

NoURL ==
  [url_string |-> None, scheme |-> None, host |-> None, port |-> NoInt,
   path |-> None, query |-> None, fragment |-> None]

\* a value is falsy when it is None or empty
falsy(v) == v = None \/ v = <<>>

\* URL.__init__ and URL.parse
URLInit ==
  /\ pc = "Start"
  /\ LET s == args.url_string
         sch == parse_scheme(s)
         hp == parse_host_and_path(s)
     IN IF falsy(s)
        THEN /\ self' = [NoURL EXCEPT !.url_string = s]
             /\ pc' = "Idle"
             /\ raised' = NoException
        ELSE IF ~sch.ok
        THEN /\ self' = self
             /\ pc' = "Rejected"
             /\ raised' = [type |-> "ValueError", msg |-> "Unsupported scheme", cause |-> "None"]
        ELSE /\ self' = [NoURL EXCEPT !.url_string = s, !.scheme = sch.scheme,
                                      !.host = hp.host, !.path = hp.path]
             /\ pc' = "Idle"
             /\ raised' = NoException
  /\ UNCHANGED <<args, net, calls, local, sock, fds, request, wire, sends, rpos,
                 status_line, headers, framing, chunk_size, body, result>>

-----------------------------------------------------------------------------
(* URL.request, lines 107-217                                              *)

HTTP_PORT == 80
HTTPS_PORT == 443

NoLocal ==
  [method |-> None, data |-> NoData, content_type |-> None,
   host |-> None, path |-> None, port |-> NoInt]

\* except_clause with the clause for Exception placed first
except_clause_generic_first(exc) == "Download failed"

\* the except clauses of request(), in order: the message of the Exception raised
\* for an exception of class exc that reaches them
except_clause(exc) ==
  IF exc = "socket.timeout" THEN "Connection timeout"
  ELSE IF exc = "socket.gaierror" THEN "DNS resolution failed"
  ELSE IF exc = "ConnectionRefusedError" THEN "Connection refused"
  ELSE "Download failed"

\* Caught connecting again in place of raising
Caught_retry(exc) ==
  /\ pc' = "Connecting"
  /\ raised' = raised

\* an exception raised inside the try block leaves request() as Exception(message)
Caught(exc) ==
  /\ pc' = "Failed"
  /\ raised' = [type |-> "Exception", msg |-> except_clause(exc), cause |-> exc]

\* resolve keeping the port of the scheme when the host names one
resolve_scheme_port(u) ==
  LET path == IF falsy(u.path) THEN <<"/">> ELSE u.path
      port == IF u.scheme = <<"h", "t", "t", "p", "s">> THEN HTTPS_PORT ELSE HTTP_PORT
      hp == split1(u.host, <<":">>)
      p == int(hp[2], 10)
  IN IF contains(u.host, <<":">>)
     THEN [ok |-> p.ok, host |-> hp[1], path |-> path, port |-> port]
     ELSE [ok |-> TRUE, host |-> u.host, path |-> path, port |-> port]

\* lines 112-120: target resolution, before the try block
resolve(u) ==
  LET path == IF falsy(u.path) THEN <<"/">> ELSE u.path
      port == IF u.scheme = <<"h", "t", "t", "p", "s">> THEN HTTPS_PORT ELSE HTTP_PORT
      hp == split1(u.host, <<":">>)
      p == int(hp[2], 10)
  IN IF contains(u.host, <<":">>)
     THEN [ok |-> p.ok, host |-> hp[1], path |-> path, port |-> p.val]
     ELSE [ok |-> TRUE, host |-> u.host, path |-> path, port |-> port]

\* Request storing the bare host and the port it resolved in the URL object
Request_storing_target(method, data, content_type) ==
  /\ pc \in {"Idle", "Complete", "Failed"}
  /\ calls' = calls + 1
  /\ sock' = "none"
  /\ request' = <<>> /\ wire' = <<>> /\ sends' = 0 /\ rpos' = 0
  /\ status_line' = None /\ headers' = <<>> /\ framing' = "none"
  /\ chunk_size' = NoInt /\ body' = <<>> /\ result' = <<>>
  /\ IF falsy(self.url_string)
     THEN /\ pc' = "Failed"
          /\ raised' = [type |-> "ValueError", msg |-> "No URL string provided",
                        cause |-> "None"]
          /\ local' = [NoLocal EXCEPT !.method = method, !.data = data,
                                      !.content_type = content_type]
          /\ self' = self
     ELSE LET t == resolve(self)
          IN /\ local' = [method |-> method, data |-> data, content_type |-> content_type,
                          host |-> t.host, path |-> t.path,
                          port |-> IF t.ok THEN <<t.port>> ELSE NoInt]
             /\ self' = [self EXCEPT !.host = t.host,
                                     !.port = IF t.ok THEN <<t.port>> ELSE NoInt]
             /\ IF t.ok
                THEN pc' = "Connecting" /\ raised' = NoException
                ELSE /\ pc' = "Failed"
                     /\ raised' = [type |-> "ValueError", cause |-> "None",
                                   msg |-> "invalid literal for int()"]
  /\ UNCHANGED <<args, net, fds>>

\* request(method, data, content_type) is entered: lines 107-120
Request(method, data, content_type) ==
  /\ pc \in {"Idle", "Complete", "Failed"}
  /\ calls' = calls + 1
  /\ sock' = "none"
  /\ request' = <<>> /\ wire' = <<>> /\ sends' = 0 /\ rpos' = 0
  /\ status_line' = None /\ headers' = <<>> /\ framing' = "none"
  /\ chunk_size' = NoInt /\ body' = <<>> /\ result' = <<>>
  /\ IF falsy(self.url_string)
     THEN /\ pc' = "Failed"
          /\ raised' = [type |-> "ValueError", msg |-> "No URL string provided",
                        cause |-> "None"]
          /\ local' = [NoLocal EXCEPT !.method = method, !.data = data,
                                      !.content_type = content_type]
     ELSE LET t == resolve(self)
          IN /\ local' = [method |-> method, data |-> data, content_type |-> content_type,
                          host |-> t.host, path |-> t.path,
                          port |-> IF t.ok THEN <<t.port>> ELSE NoInt]
             /\ IF t.ok
                THEN pc' = "Connecting" /\ raised' = NoException
                ELSE /\ pc' = "Failed"
                     /\ raised' = [type |-> "ValueError", cause |-> "None",
                                   msg |-> "invalid literal for int()"]
  /\ UNCHANGED <<self, args, net, fds>>

\* URL.download, lines 99-101
Download ==
  /\ calls < Len(args.script) /\ args.script[calls + 1] = "download"
  /\ Request(<<"G", "E", "T">>, NoData, DefaultContentType)

\* URL.send, lines 103-105
Send ==
  /\ calls < Len(args.script) /\ args.script[calls + 1] = "send"
  /\ Request(<<"P", "O", "S", "T">>, args.data, args.content_type)

\* lines 124-133: the socket is created, given its timeout, wrapped for https and
\* connected; a failed connect leaves through the except clauses
Connect ==
  /\ pc = "Connecting"
  /\ sock' = "open"
  /\ fds' = [fds EXCEPT !.opened = @ + 1]
  /\ IF net.connect = "ok"
     THEN pc' = "Connected" /\ raised' = raised
     ELSE Caught(net.connect)
  /\ UNCHANGED <<self, args, net, calls, local, request, wire, sends, rpos,
                 status_line, headers, framing, chunk_size, body, result>>

\* the dict branch of line 148: "&".join(f"{key}={value}" ...)
RECURSIVE pairs(_)
pairs(items) ==
  IF items = <<>> THEN <<>>
  ELSE <<items[1][1] \o <<"=">> \o items[1][2]>> \o pairs(Tail(items))

\* lines 146-150
encoded_data(data) ==
  IF data.kind = "dict" THEN join(<<"&">>, pairs(data.items)) ELSE data.text

\* data is truthy: not None, not "" and not {}
truthy(data) ==
  /\ data.kind # "None"
  /\ IF data.kind = "dict" THEN data.items # <<>> ELSE data.text # <<>>

\* lines 136-157: the request text
serialize(method, host, path, data, content_type) ==
  method \o <<" ">> \o path \o <<" ", "H", "T", "T", "P", "/", "1", ".", "1", "\r", "\n">>
  \o <<"H", "o", "s", "t", ":", " ">> \o host \o <<"\r", "\n">>
  \o <<"U", "s", "e", "r", "-", "A", "g", "e", "n", "t", ":", " ", "M", "o", "z", "i", "l", "l", "a", "/", "5", ".", "0", " ", "(", "P", "y", "t", "h", "o", "n", " ", "S", "o", "c", "k", "e", "t", " ", "B", "r", "o", "w", "s", "e", "r", ")", " ", "A", "p", "p", "l", "e", "W", "e", "b", "K", "i", "t", "/", "5", "3", "7", ".", "3", "6", "\r", "\n">>
  \o <<"A", "c", "c", "e", "p", "t", ":", " ", "t", "e", "x", "t", "/", "h", "t", "m", "l", ",", "a", "p", "p", "l", "i", "c", "a", "t", "i", "o", "n", "/", "x", "h", "t", "m", "l", "+", "x", "m", "l", ",", "a", "p", "p", "l", "i", "c", "a", "t", "i", "o", "n", "/", "x", "m", "l", ";", "q", "=", "0", ".", "9", ",", "*", "/", "*", ";", "q", "=", "0", ".", "8", "\r", "\n">>
  \o <<"A", "c", "c", "e", "p", "t", "-", "L", "a", "n", "g", "u", "a", "g", "e", ":", " ", "e", "n", "-", "U", "S", ",", "e", "n", ";", "q", "=", "0", ".", "5", "\r", "\n">>
  \o <<"A", "c", "c", "e", "p", "t", "-", "E", "n", "c", "o", "d", "i", "n", "g", ":", " ", "i", "d", "e", "n", "t", "i", "t", "y", "\r", "\n">>
  \o <<"C", "o", "n", "n", "e", "c", "t", "i", "o", "n", ":", " ", "c", "l", "o", "s", "e", "\r", "\n">>
  \o (IF truthy(data) /\ method = <<"P", "O", "S", "T">>
      THEN <<"C", "o", "n", "t", "e", "n", "t", "-", "T", "y", "p", "e", ":", " ">> \o content_type \o <<"\r", "\n">>
           \o <<"C", "o", "n", "t", "e", "n", "t", "-", "L", "e", "n", "g", "t", "h", ":", " ">> \o str(Len(encoded_data(data))) \o <<"\r", "\n">>
           \o <<"\r", "\n">>
           \o encoded_data(data)
      ELSE <<"\r", "\n">>)

\* the bytes one sock.send(b) call hands to the transport: all of b, or, when the
\* transport accepts only part of what is offered, a proper prefix of it
accepted(b, how) == IF how = "partial" THEN Upto(b, Len(b) \div 2) ELSE b

\* lines 136-163: the request is built and sent with one sock.send
SendRequest ==
  /\ pc = "Connected"
  /\ LET r == serialize(local.method, local.host, local.path, local.data,
                        local.content_type)
     IN /\ request' = r
        /\ sends' = sends + 1
        /\ IF net.send \in {"ok", "partial"}
           THEN /\ wire' = wire \o accepted(encode(r), net.send)
                /\ pc' = "RequestSent"
                /\ raised' = raised
           ELSE /\ wire' = wire
                /\ Caught(net.send)
  /\ UNCHANGED <<self, args, net, calls, local, sock, fds, rpos,
                 status_line, headers, framing, chunk_size, body, result>>

-----------------------------------------------------------------------------
(* response_file = sock.makefile('rb'): buffered reads of the peer's stream *)

\* what is left of the peer's stream after pos bytes
rest(pos) == From(net.stream, pos)

\* what a read meets once the stream's bytes are used up: end of file when the
\* peer closed, socket.timeout when it went silent, OSError when it reset
atEnd == IF net.ending = "close" THEN "none"
         ELSE IF net.ending = "stall" THEN "socket.timeout"
         ELSE "OSError"

\* response_file.readline(): up to and including the first "\n", or up to the end
readline(pos) ==
  LET r == rest(pos)
      i == find(r, <<"\n">>)
  IN IF i # -1 THEN [exc |-> "none", bytes |-> Upto(r, i + 1), pos |-> pos + i + 1]
     ELSE [exc |-> atEnd, bytes |-> r, pos |-> pos + Len(r)]

\* response_file.read(n): n bytes, fewer when the peer closes first; n = -1 reads
\* to the end; n < -1 is a ValueError
read(pos, n) ==
  LET r == rest(pos)
  IN IF n < -1 THEN [exc |-> "ValueError", bytes |-> <<>>, pos |-> pos]
     ELSE IF n >= 0 /\ Len(r) >= n THEN [exc |-> "none", bytes |-> Upto(r, n), pos |-> pos + n]
     ELSE [exc |-> atEnd, bytes |-> r, pos |-> pos + Len(r)]

\* readall reading one line in place of the whole stream
readall_one_line(pos) == readline(pos)

\* response_file.read(): to the end
readall(pos) == read(pos, -1)

\* the dict headers, kept as its items in insertion order
has(d, k) == \E i \in 1..Len(d) : d[i][1] = k
get(d, k, default) ==
  IF has(d, k) THEN d[CHOOSE i \in 1..Len(d) : d[i][1] = k][2] ELSE default
set(d, k, v) ==
  IF has(d, k) THEN [i \in 1..Len(d) |-> IF d[i][1] = k THEN <<k, v>> ELSE d[i]]
  ELSE Append(d, <<k, v>>)

\* lines 165-166: the status line is read
ReadStatus ==
  /\ pc = "RequestSent"
  /\ LET r == readline(rpos)
     IN IF r.exc = "none"
        THEN /\ status_line' = strip(decode(r.bytes))
             /\ rpos' = r.pos
             /\ pc' = "StatusRead"
             /\ raised' = raised
        ELSE /\ Caught(r.exc)
             /\ UNCHANGED <<status_line, rpos>>
  /\ UNCHANGED <<self, args, net, calls, local, sock, fds, request, wire, sends,
                 headers, framing, chunk_size, body, result>>

\* lines 170-176: one turn of the header loop
ReadHeader ==
  /\ pc = "StatusRead"
  /\ LET r == readline(rpos)
         header_line == strip(decode(r.bytes))
         kv == split1(header_line, <<":">>)
     IN IF r.exc # "none"
        THEN /\ Caught(r.exc)
             /\ UNCHANGED <<rpos, headers>>
        ELSE /\ rpos' = r.pos
             /\ raised' = raised
             /\ IF header_line = <<>>
                THEN pc' = "HeadersRead" /\ headers' = headers
                ELSE /\ pc' = pc
                     /\ headers' = IF contains(header_line, <<":">>)
                                   THEN set(headers, strip(kv[1]), strip(kv[2]))
                                   ELSE headers
  /\ UNCHANGED <<self, args, net, calls, local, sock, fds, request, wire, sends,
                 status_line, framing, chunk_size, body, result>>

\* body_framing with the test for chunked coding placed first
body_framing_chunked_first(h) ==
  IF lower(get(h, <<"T", "r", "a", "n", "s", "f", "e", "r", "-", "E", "n", "c", "o", "d", "i", "n", "g">>, <<>>)) = <<"c", "h", "u", "n", "k", "e", "d">> THEN "chunked"
  ELSE IF has(h, <<"C", "o", "n", "t", "e", "n", "t", "-", "L", "e", "n", "g", "t", "h">>) THEN "content-length"
  ELSE "until-close"

\* the tests of lines 180, 184 and 187: which way the body is read
body_framing(h) ==
  IF has(h, <<"C", "o", "n", "t", "e", "n", "t", "-", "L", "e", "n", "g", "t", "h">>) THEN "content-length"
  ELSE IF lower(get(h, <<"T", "r", "a", "n", "s", "f", "e", "r", "-", "E", "n", "c", "o", "d", "i", "n", "g">>, <<>>)) = <<"c", "h", "u", "n", "k", "e", "d">> THEN "chunked"
  ELSE "until-close"

SelectFraming ==
  /\ pc = "HeadersRead"
  /\ framing' = body_framing(headers)
  /\ pc' = "BodyReading"
  /\ UNCHANGED <<self, args, net, calls, local, sock, fds, request, wire, sends, rpos,
                 status_line, headers, chunk_size, body, result, raised>>

\* lines 181-183
ReadContentLength ==
  /\ pc = "BodyReading" /\ framing = "content-length"
  /\ LET content_length == int(get(headers, <<"C", "o", "n", "t", "e", "n", "t", "-", "L", "e", "n", "g", "t", "h">>, <<>>), 10)
         r == read(rpos, content_length.val)
     IN IF ~content_length.ok
        THEN Caught("ValueError") /\ UNCHANGED <<rpos, body>>
        ELSE IF r.exc # "none"
        THEN Caught(r.exc) /\ UNCHANGED <<rpos, body>>
        ELSE /\ body' = decode(r.bytes)
             /\ rpos' = r.pos
             /\ pc' = "BodyRead"
             /\ raised' = raised
  /\ UNCHANGED <<self, args, net, calls, local, sock, fds, request, wire, sends,
                 status_line, headers, framing, chunk_size, result>>

\* lines 189-190
ReadUntilClose ==
  /\ pc = "BodyReading" /\ framing = "until-close"
  /\ LET r == readall(rpos)
     IN IF r.exc # "none"
        THEN Caught(r.exc) /\ UNCHANGED <<rpos, body>>
        ELSE /\ body' = decode(r.bytes)
             /\ rpos' = r.pos
             /\ pc' = "BodyRead"
             /\ raised' = raised
  /\ UNCHANGED <<self, args, net, calls, local, sock, fds, request, wire, sends,
                 status_line, headers, framing, chunk_size, result>>

\* URL._read_chunked_response, lines 225-237: the chunk size line is read; an empty
\* line, a line that is no base-16 integer and a size of 0 leave the loop
ReadChunkSize ==
  /\ pc = "BodyReading" /\ framing = "chunked" /\ chunk_size = NoInt
  /\ LET r == readline(rpos)
         size_line == strip(decode(r.bytes))
         n == int(size_line, 16)
     IN IF r.exc # "none"
        THEN Caught(r.exc) /\ UNCHANGED <<rpos, chunk_size>>
        ELSE /\ rpos' = r.pos
             /\ raised' = raised
             /\ IF size_line = <<>> \/ ~n.ok \/ n.val = 0
                THEN pc' = "BodyRead" /\ chunk_size' = chunk_size
                ELSE pc' = pc /\ chunk_size' = <<n.val>>
  /\ UNCHANGED <<self, args, net, calls, local, sock, fds, request, wire, sends,
                 status_line, headers, framing, body, result>>

\* URL._read_chunked_response, lines 240-244: the chunk data is read, decoded and
\* appended, and the line after it is read and dropped
ReadChunkData ==
  /\ pc = "BodyReading" /\ framing = "chunked" /\ chunk_size # NoInt
  /\ LET r == read(rpos, chunk_size[1])
         t == readline(r.pos)
     IN IF r.exc # "none"
        THEN Caught(r.exc) /\ UNCHANGED <<rpos, body>>
        ELSE IF t.exc # "none"
        THEN Caught(t.exc) /\ UNCHANGED <<rpos, body>>
        ELSE /\ body' = body \o decode(r.bytes)
             /\ rpos' = t.pos
             /\ pc' = pc
             /\ raised' = raised
  /\ chunk_size' = NoInt
  /\ UNCHANGED <<self, args, net, calls, local, sock, fds, request, wire, sends,
                 status_line, headers, framing, result>>

\* lines 196-200; ok = FALSE is the ValueError of int()
status_code(line) ==
  LET status_parts == split(line)
  IN IF Len(status_parts) >= 2 THEN int(status_parts[2], 10)
     ELSE [ok |-> TRUE, val |-> 0]

\* lines 192-208: the file and the socket are closed, the status code is
\* extracted and the response is returned
Return ==
  /\ pc = "BodyRead"
  /\ sock' = "closed"
  /\ fds' = [fds EXCEPT !.closed = @ + 1]
  /\ LET code == status_code(status_line)
     IN IF code.ok
        THEN /\ result' = <<[content |-> body, status_code |-> code.val,
                             headers |-> headers,
                             url |-> self.scheme \o <<":", "/", "/">> \o self.host \o self.path,
                             method |-> local.method]>>
             /\ pc' = "Complete"
             /\ raised' = raised
        ELSE Caught("ValueError") /\ result' = result
  /\ UNCHANGED <<self, args, net, calls, local, request, wire, sends, rpos,
                 status_line, headers, framing, chunk_size, body>>

-----------------------------------------------------------------------------
(* The caller's inputs and the environment                                 *)

MaxPayload == 3
MaxFields == 2
MaxChunks == 2

Str(t) == [kind |-> "str", text |-> t, items |-> <<>>]
Dict(items) == [kind |-> "dict", text |-> <<>>, items |-> items]

\* sequences of length at most n of elements of A
RECURSIVE SeqsUpTo(_, _)
SeqsUpTo(A, n) ==
  IF n = 0 THEN {<<>>}
  ELSE LET S == SeqsUpTo(A, n - 1)
       IN S \cup {Append(s, a) : s \in S, a \in A}

URLStrings ==
  {<<"h", "t", "t", "p", ":", "/", "/", "h", "/">>, <<"h", "t", "t", "p", "s", ":", "/", "/", "h">>, <<"h", ":", "8", "/", "p">>, <<"h", ":", "z">>, <<"f", "t", "p", ":", "/", "/", "h">>, <<>>}

FormValues == {<<"1">>, <<"U+00E9">>}

Form == Dict(<<<<<<"a">>, <<"1">>>>, <<<<"b">>, <<"2">>>>>>)

Data ==
  {NoData, Str(<<"z">>), Str(<<"U+00E9">>), Str(<<>>), Dict(<<>>), Form}
  \cup {Dict(<<<<<<"a">>, v>>>>) : v \in FormValues}
  \cup {Dict(<<<<<<"b">>, v>>, <<<<"a">>, w>>>>) : v \in FormValues, w \in FormValues}

\* the calls a caller makes on its URL object, in order
Scripts == SeqsUpTo({"download", "send"}, MaxCalls) \ {<<>>}

Call(u, d, script) ==
  [url_string |-> u, data |-> d, content_type |-> DefaultContentType, script |-> script]

Get == Call(<<"h", "t", "t", "p", ":", "/", "/", "h", "/">>, NoData, <<"download">>)

PayloadBytes == {"a", "\n", "0xC3", "0xA9"}
Payloads == SeqsUpTo(PayloadBytes, MaxPayload)

OK200 == <<"H", "T", "T", "P", "/", "1", ".", "1", " ", "2", "0", "0", " ", "O", "K">>
StatusLines == {OK200, <<"H", "T", "T", "P", "/", "1", ".", "1", " ", "O", "K">>, <<"H", "T", "T", "P", "/", "1", ".", "1">>, <<>>}

ContentLength(v) == <<<<"C", "o", "n", "t", "e", "n", "t", "-", "L", "e", "n", "g", "t", "h">>, v>>
TransferEncoding(v) == <<<<"T", "r", "a", "n", "s", "f", "e", "r", "-", "E", "n", "c", "o", "d", "i", "n", "g">>, v>>

Fields ==
  {ContentLength(v) : v \in {<<"2">>, <<"4">>, <<"-", "1">>, <<"-", "2">>, <<"z">>}}
  \cup {TransferEncoding(v) : v \in {<<"c", "h", "u", "n", "k", "e", "d">>, <<"C", "h", "u", "n", "k", "e", "d">>, <<"g", "z", "i", "p">>}}
  \cup {<<<<"c", "o", "n", "t", "e", "n", "t", "-", "l", "e", "n", "g", "t", "h">>, <<"1">>>>, <<<<"X">>, <<"a", ":", "b">>>>}

CRLF == <<"\r", "\n">>

RECURSIVE field_lines(_)
field_lines(fs) ==
  IF fs = <<>> THEN <<>>
  ELSE fs[1][1] \o <<":", " ">> \o fs[1][2] \o CRLF \o field_lines(Tail(fs))

\* a chunk of a chunked body: the size in base 16, the data, a line end
chunk(data) == <<HexDigits[Len(data) + 1]>> \o CRLF \o data \o CRLF

RECURSIVE chunked(_)
chunked(cs) == IF cs = <<>> THEN <<>> ELSE chunk(cs[1]) \o chunked(Tail(cs))

\* the ways to cut p into at most k non-empty chunks
RECURSIVE Splits(_, _)
Splits(p, k) ==
  IF p = <<>> THEN {<<>>}
  ELSE IF k = 0 THEN {}
  ELSE UNION {{<<Upto(p, i)>> \o r : r \in Splits(From(p, i), k - 1)} : i \in 1..Len(p)}

ChunkLists == UNION {Splits(p, MaxChunks) : p \in Payloads}

\* what follows the chunks: the zero-size chunk, nothing, a size line that is no
\* base-16 number, a negative size, a size larger than what follows
ZeroChunk == <<"0", "\r", "\n", "\r", "\n">>
Tails == {ZeroChunk, <<>>, <<"z", "z", "\r", "\n">>, <<"-", "2", "\r", "\n">>, <<"3", "\r", "\n", "a">>}

\* what a read finds after the last byte: the peer closed, went silent, or reset
Endings == {"close", "stall", "reset"}

\* what the peer sends: a status line, header fields, a blank line and a payload,
\* which is either raw bytes or a chunked coding of chunks followed by a tail
Response(status, fs, cs, tail, payload, ending) ==
  [connect |-> "ok", send |-> "ok", ending |-> ending,
   status |-> status, fields |-> fs, chunks |-> cs, tail |-> tail,
   payload |-> payload,
   stream |-> status \o CRLF \o field_lines(fs) \o CRLF \o payload]

Raw(status, fs, payload, ending) == Response(status, fs, <<>>, <<>>, payload, ending)
Chunked(status, fs, cs, tail, ending) ==
  Response(status, fs, cs, tail, chunked(cs) \o tail, ending)

Page == Raw(OK200, <<ContentLength(<<"2">>)>>, <<"a", "\n">>, "close")
Silence == [Raw(<<>>, <<>>, <<>>, "close") EXCEPT !.stream = <<>>]

\* the environments in which every step of an exchange can fail
FewNets ==
  {[Silence EXCEPT !.connect = c] :
     c \in {"socket.timeout", "socket.gaierror", "ConnectionRefusedError", "OSError"}}
  \cup {[Silence EXCEPT !.send = s] : s \in {"socket.timeout", "OSError"}}
  \cup {[Silence EXCEPT !.ending = e] : e \in Endings}
  \cup {[Page EXCEPT !.send = w] : w \in {"ok", "partial"}}

TEChunked == <<TransferEncoding(<<"c", "h", "u", "n", "k", "e", "d">>)>>

FewChunkLists == {<<>>, <<<<"a">>>>, <<<<"a", "\n">>, <<"a">>>>, <<<<"0xC3">>, <<"0xA9">>>>}
FewFieldLists == {<<>>, <<ContentLength(<<"2">>)>>, <<ContentLength(<<"4">>)>>}

\* header lines as the peer may write them: a name sent twice, with and without
\* blanks around name and value, a value holding ":", an empty value, an empty
\* name, a line without ":", a line of one blank, a line of one byte that is no
\* UTF-8
RawLines ==
  {<<"X", ":", " ", "1">>, <<"X", ":", "2">>, <<" ", "X", " ", ":", " ", "a", ":", "b", " ">>,
   <<"Y", ":">>, <<":", "v">>, <<"Z">>, <<" ">>, <<"0xC3">>}

RECURSIVE raw_lines(_)
raw_lines(ls) == IF ls = <<>> THEN <<>> ELSE ls[1] \o CRLF \o raw_lines(Tail(ls))

\* a response whose header block is the lines ls and an empty line
HeaderBlock(ls, ending) ==
  [Raw(OK200, <<>>, <<"a">>, ending)
     EXCEPT !.stream = OK200 \o CRLF \o raw_lines(ls) \o CRLF \o <<"a">>]

\* URL strings for decomposition: no scheme separator, a supported scheme in
\* lower, upper and mixed case, an unsupported one and an empty one, each before
\* every remainder of at most MaxURL characters of host, port, path, query and
\* fragment punctuation
MaxURL == 3
URLChars == {"h", "8", ":", "/", "?", "#"}
Prefixes ==
  {<<>>, <<"h", "t", "t", "p", ":", "/", "/">>, <<"h", "t", "t", "p", "s", ":", "/", "/">>,
   <<"H", "t", "T", "p", "S", ":", "/", "/">>, <<"f", "t", "p", ":", "/", "/">>,
   <<"h", "t", "t", "p", "x", ":", "/", "/">>}
Remainders == SeqsUpTo(URLChars, MaxURL)

\* a peer that refuses the connection
Refused == [Silence EXCEPT !.connect = "ConnectionRefusedError"]

\* the caller's inputs paired with the environment: every URL and sequence of calls
\* against the few environments, every request body against one, and one GET
\* against every status line, list of header fields, payload, chunking and tail;
\* and every URL string of the decomposition inputs against a peer that refuses,
\* and one GET against every header block of raw lines
Scenario(a, n) ==
  \/ \E u \in URLStrings, s \in Scripts, f \in FewNets : a = Call(u, Form, s) /\ n = f
  \/ \E d \in Data : a = Call(<<"h", "t", "t", "p", ":", "/", "/", "h", "/">>, d, <<"send">>) /\ n = Page
  \/ \E s \in StatusLines, fs \in FewFieldLists, e \in Endings :
        a = Get /\ n = Raw(s, fs, <<"a">>, e)
  \/ \E s \in StatusLines :
        a = Get /\ n = Chunked(s, TEChunked, <<<<"a">>>>, ZeroChunk, "close")
  \/ \E fs \in SeqsUpTo(Fields, MaxFields), e \in Endings :
        a = Get /\ n = Raw(OK200, fs, <<"a", "\n">>, e)
  \/ \E fs \in FewFieldLists, p \in Payloads, e \in Endings :
        a = Get /\ n = Raw(OK200, fs, p, e)
  \/ \E cs \in ChunkLists : a = Get /\ n = Chunked(OK200, TEChunked, cs, ZeroChunk, "close")
  \/ \E cs \in FewChunkLists, t \in Tails, e \in Endings :
        a = Get /\ n = Chunked(OK200, TEChunked, cs, t, e)
  \/ \E p \in Prefixes, r \in Remainders :
        a = Call(p \o r, NoData, <<"download">>) /\ n = Refused
  \/ \E ls \in SeqsUpTo(RawLines, MaxFields), e \in {"close", "stall"} :
        a = Get /\ n = HeaderBlock(ls, e)

Init ==
  /\ pc = "Start"
  /\ self = NoURL
  /\ Scenario(args, net)
  /\ calls = 0
  /\ local = NoLocal
  /\ sock = "none"
  /\ fds = [opened |-> 0, closed |-> 0]
  /\ request = <<>> /\ wire = <<>> /\ sends = 0 /\ rpos = 0
  /\ status_line = None /\ headers = <<>> /\ framing = "none"
  /\ chunk_size = NoInt /\ body = <<>>
  /\ result = <<>>
  /\ raised = NoException

Next ==
  \/ URLInit
  \/ Download
  \/ Send
  \/ Connect
  \/ SendRequest
  \/ ReadStatus
  \/ ReadHeader
  \/ SelectFraming
  \/ ReadContentLength
  \/ ReadUntilClose
  \/ ReadChunkSize
  \/ ReadChunkData
  \/ Return

Spec == Init /\ [][Next]_vars

-----------------------------------------------------------------------------
(* What the peer sent, read off the environment rather than off the parse  *)

\* the values of the header fields named name, in the order sent
RECURSIVE sent(_, _)
sent(fs, name) ==
  IF fs = <<>> THEN <<>>
  ELSE (IF fs[1][1] = name THEN <<fs[1][2]>> ELSE <<>>) \o sent(Tail(fs), name)

\* v is "chunked" in some mix of upper and lower case
IsChunkedToken(v) ==
  /\ Len(v) = 7
  /\ \A i \in 1..7 : v[i] \in {<<"c", "h", "u", "n", "k", "e", "d">>[i], <<"C", "H", "U", "N", "K", "E", "D">>[i]}

\* the framing the priority order gives for the header fields fs
FramingOf(fs) ==
  LET te == sent(fs, <<"T", "r", "a", "n", "s", "f", "e", "r", "-", "E", "n", "c", "o", "d", "i", "n", "g">>)
  IN IF sent(fs, <<"C", "o", "n", "t", "e", "n", "t", "-", "L", "e", "n", "g", "t", "h">>) # <<>> THEN "content-length"
     ELSE IF te # <<>> /\ IsChunkedToken(te[Len(te)]) THEN "chunked"
     ELSE "until-close"

IsNumber(v) == v # <<>> /\ \A i \in 1..Len(v) : \E d \in 1..10 : DecDigits[d] = v[i]

\* every lead byte is followed by its continuation byte and every continuation
\* byte follows a lead byte
ValidUTF8(b) ==
  \A i \in 1..Len(b) :
    /\ b[i] = "0xC3" => i < Len(b) /\ b[i + 1] = "0xA9"
    /\ b[i] = "0xA9" => i > 1 /\ b[i - 1] = "0xC3"

Returned == pc = "Complete" /\ Len(result) = 1
Exited == pc \in {"Complete", "Failed"}

-----------------------------------------------------------------------------
(* Claims                                                                  *)

\* C1: when a call of request() that created a socket has returned or raised,
\* that socket is closed; and a call creates at most one socket.
SocketClosedOnEveryExit ==
  /\ fds.opened <= calls
  /\ (Exited /\ sock # "none") => sock = "closed"

\* C2: when the peer sent Content-Length: n, the returned body is exactly the n
\* bytes after the blank line: no fewer and no more.
ContentLengthBodyExact ==
  \A n \in 0..(MaxPayload + 1) :
    (Returned /\ sent(net.fields, <<"C", "o", "n", "t", "e", "n", "t", "-", "L", "e", "n", "g", "t", "h">>) = <<str(n)>>)
      => /\ Len(net.payload) >= n
         /\ result[1].content = decode(SubSeq(net.payload, 1, n))

\* C3: for well-formed chunks ended by the zero-size chunk, the returned body is
\* the concatenation of the chunk data, in order.
ChunkedBodyIsConcatenation ==
  (Returned /\ FramingOf(net.fields) = "chunked" /\ net.tail = ZeroChunk)
    => result[1].content = decode(concat(net.chunks))

\* C4: the way the body is read follows the priority order: Content-Length when
\* that header is present, also beside Transfer-Encoding: chunked; the chunked
\* decoder when it is absent and Transfer-Encoding is chunked in any case of
\* letters; reading until close otherwise. Chunks are read in no other framing.
FramingByPriority ==
  /\ framing # "none" => framing = FramingOf(net.fields)
  /\ framing = "none" => pc \notin {"BodyReading", "BodyRead", "Complete"}
  /\ chunk_size # NoInt => framing = "chunked"

FramingByPriority_witness ==
  /\ Returned
  /\ sent(net.fields, <<"C", "o", "n", "t", "e", "n", "t", "-", "L", "e", "n", "g", "t", "h">>) # <<>>
  /\ sent(net.fields, <<"T", "r", "a", "n", "s", "f", "e", "r", "-", "E", "n", "c", "o", "d", "i", "n", "g">>) = <<<<"c", "h", "u", "n", "k", "e", "d">>>>
  /\ framing = "content-length"

\* the lines of the bytes b, each with its line terminator
RECURSIVE LinesOf(_)
LinesOf(b) ==
  IF b = <<>> THEN <<>>
  ELSE IF \A i \in 1..Len(b) : b[i] # "\n" THEN <<b>>
  ELSE LET n == CHOOSE i \in 1..Len(b) : b[i] = "\n" /\ \A j \in 1..(i - 1) : b[j] # "\n"
       IN <<SubSeq(b, 1, n)>> \o LinesOf(SubSeq(b, n + 1, Len(b)))

\* a line of nothing but its terminator, and a line that holds nothing once it is
\* decoded and trimmed
EmptyLine(l) == l \in {<<"\r", "\n">>, <<"\n">>}
BlankLine(l) == strip(decode(l)) = <<>>

\* the lines of ls before its first empty line, and before its first blank line
RECURSIVE UntilEmptyLine(_)
UntilEmptyLine(ls) ==
  IF ls = <<>> \/ EmptyLine(ls[1]) THEN <<>> ELSE <<ls[1]>> \o UntilEmptyLine(Tail(ls))

RECURSIVE UntilBlankLine(_)
UntilBlankLine(ls) ==
  IF ls = <<>> \/ BlankLine(ls[1]) THEN <<>> ELSE <<ls[1]>> \o UntilBlankLine(Tail(ls))

\* the header lines the peer sent: the lines after the status line, up to the
\* first empty line; and the lines the engine takes for them, up to the first
\* blank line
SentHeaderLines ==
  IF net.stream = <<>> THEN <<>> ELSE UntilEmptyLine(Tail(LinesOf(net.stream)))
ReadHeaderLines ==
  IF net.stream = <<>> THEN <<>> ELSE UntilBlankLine(Tail(LinesOf(net.stream)))

\* the bytes of the status line, of n header lines and of the line that ends them
HeadLength(n) ==
  LET ls == LinesOf(net.stream)
  IN Len(concat(SubSeq(ls, 1, IF n + 2 <= Len(ls) THEN n + 2 ELSE Len(ls))))
SentHeadLength == HeadLength(Len(SentHeaderLines))
ReadHeadLength == HeadLength(Len(ReadHeaderLines))

\* C5 as stated: without Content-Length and chunked coding, the returned body is
\* all bytes the peer sent after the header block, none dropped and none added.
UntilCloseReturnsAllBytes ==
  (Returned /\ FramingOf(net.fields) = "until-close")
    => encode(result[1].content) = net.payload

\* C5 as amended: the returned body is the UTF-8 decoding, with undecodable bytes
\* dropped, of all bytes the peer sent after the header block as the engine reads
\* it, up to the peer's close; when those bytes are valid UTF-8, none is dropped
\* and none added. Where the engine ends the header block at the peer's empty
\* line, these are the bytes of the peer's payload.
UntilCloseReturnsDecodedBytes ==
  (Returned /\ FramingOf(net.fields) = "until-close")
    => LET b == From(net.stream, ReadHeadLength)
       IN /\ result[1].content = decode(b)
          /\ rpos = Len(net.stream)
          /\ ValidUTF8(b) => encode(result[1].content) = b
          /\ ReadHeadLength = SentHeadLength => b = net.payload

UntilCloseReturnsDecodedBytes_witness ==
  /\ Returned /\ FramingOf(net.fields) = "until-close"
  /\ Len(net.payload) >= 3
  /\ ValidUTF8(net.payload)
  /\ \E i \in 1..Len(net.payload) : net.payload[i] = "0xC3"
  /\ \E i \in 1..(Len(net.payload) - 1) : net.payload[i] = "\n"

\* the header value of name in the request text r, and the body of r
request_header(r, name) ==
  LET i == find(r, CRLF \o name \o <<":", " ">>)
      v == From(r, i + Len(name) + 4)
  IN Upto(v, find(v, CRLF))
request_body(r) == From(r, find(r, CRLF \o CRLF) + 4)

\* C6: a POST of a non-empty mapping writes the key=value pairs joined by & as its body, and
\* a Content-Length equal to the number of bytes of that body as transmitted.
PostContentLengthIsByteLength ==
  (sends > 0 /\ local.method = <<"P", "O", "S", "T">> /\ local.data.kind = "dict"
     /\ local.data.items # <<>>)
    => /\ request_body(request) = join(<<"&">>, pairs(local.data.items))
       /\ contains(request, CRLF \o <<"C", "o", "n", "t", "e", "n", "t", "-", "L", "e", "n", "g", "t", "h", ":", " ">>)
       /\ request_header(request, <<"C", "o", "n", "t", "e", "n", "t", "-", "L", "e", "n", "g", "t", "h">>)
            = str(Len(encode(request_body(request))))

\* a status line with fewer than two tokens, or whose second token is no integer
MalformedStatus(s) == Len(split(s)) < 2 \/ ~IsNumber(split(s)[2])

\* C7: a malformed status line is not fatal: once the body is read and the
\* connection closed, the call returns a response with status_code 0.
MalformedStatusNotFatal ==
  (MalformedStatus(net.status) /\ sock = "closed")
    => Returned /\ result[1].status_code = 0

\* a chunk-size line that is not made of base-16 digits
MalformedTails == {<<"z", "z", "\r", "\n">>, <<"-", "2", "\r", "\n">>}

\* C8: a malformed chunk-size line is not fatal: when the peer's chunks are
\* followed by such a line and the peer closes, the call returns a response whose
\* body is the concatenation of the chunk data before that line.
MalformedChunkSizeNotFatal ==
  (Exited /\ FramingOf(net.fields) = "chunked" /\ net.tail \in MalformedTails
     /\ net.ending = "close" /\ ~MalformedStatus(net.status))
    => Returned /\ result[1].content = decode(concat(net.chunks))

\* C9: a timeout of connect, of send or of a read leaves request() as the
\* exception with the message "Connection timeout", and nothing else does; a read
\* until close of a silent peer times out rather than returns.
TimeoutIsItsOwnCategory ==
  /\ raised.cause = "socket.timeout"
       <=> (raised.type = "Exception" /\ raised.msg = "Connection timeout")
  /\ (net.connect = "socket.timeout" /\ sock # "none")
       => pc = "Failed" /\ raised.msg = "Connection timeout"
  /\ (net.send = "socket.timeout" /\ sends > 0)
       => pc = "Failed" /\ raised.msg = "Connection timeout"
  /\ (net.ending = "stall" /\ framing = "until-close" /\ pc # "BodyReading")
       => pc = "Failed" /\ raised.msg = "Connection timeout"

TimeoutIsItsOwnCategory_witness ==
  /\ pc = "Failed" /\ raised.msg = "Connection timeout"
  /\ framing = "chunked" /\ body # <<>>

Categories ==
  {"Connection timeout", "DNS resolution failed", "Connection refused", "Download failed"}

\* C10: a failure of request() on a URL that was decomposed is one of the four
\* categorized errors, and no response is returned with it.
EveryFailureCategorized ==
  (pc = "Failed" /\ ~falsy(self.url_string))
    => /\ raised.type = "Exception" /\ raised.msg \in Categories
       /\ result = <<>>

-----------------------------------------------------------------------------
(* URL decomposition, read off the URL string rather than off the parse    *)

http == <<"h", "t", "t", "p">>
https == <<"h", "t", "t", "p", "s">>

\* the scheme separator stands at characters i, i + 1, i + 2 of u
SeparatorAt(u, i) == i + 2 <= Len(u) /\ u[i] = ":" /\ u[i + 1] = "/" /\ u[i + 2] = "/"
HasSeparator(u) == \E i \in 1..Len(u) : SeparatorAt(u, i)
FirstSeparator(u) ==
  CHOOSE i \in 1..Len(u) : SeparatorAt(u, i) /\ \A j \in 1..(i - 1) : ~SeparatorAt(u, j)

\* v spells the lower-case word w in some mix of upper and lower case
Spells(v, w) ==
  /\ Len(v) = Len(w)
  /\ \A i \in 1..Len(w) :
       \/ v[i] = w[i]
       \/ \E k \in 1..Len(LowerCase) : LowerCase[k] = w[i] /\ UpperCase[k] = v[i]

\* the text before the first scheme separator, and the text after it; all of u
\* is the remainder when it has no separator
BeforeSeparator(u) == SubSeq(u, 1, FirstSeparator(u) - 1)
Remainder(u) ==
  IF HasSeparator(u) THEN SubSeq(u, FirstSeparator(u) + 3, Len(u)) ELSE u

Constructed == pc \notin {"Start", "Rejected"}
Decomposed == Constructed /\ ~falsy(self.url_string)

\* C11: for a non-empty URL string the scheme is http when the string has no
\* "://"; it is http or https when the text before the first "://" spells that
\* word in any case of letters; in every other case construction fails with the
\* unsupported-scheme error. A constructed URL's scheme is http or https.
SchemeDetermined ==
  (pc # "Start" /\ ~falsy(args.url_string)) =>
    LET u == args.url_string
    IN /\ ~HasSeparator(u) => Constructed /\ self.scheme = http
       /\ (HasSeparator(u) /\ Spells(BeforeSeparator(u), http))
            => Constructed /\ self.scheme = http
       /\ (HasSeparator(u) /\ Spells(BeforeSeparator(u), https))
            => Constructed /\ self.scheme = https
       /\ (HasSeparator(u) /\ ~Spells(BeforeSeparator(u), http)
              /\ ~Spells(BeforeSeparator(u), https))
            => /\ pc = "Rejected"
               /\ raised.type = "ValueError" /\ raised.msg = "Unsupported scheme"
       /\ Constructed => self.scheme \in {http, https}

SchemeDetermined_witness ==
  /\ Constructed /\ self.scheme = https
  /\ Spells(BeforeSeparator(args.url_string), https)
  /\ BeforeSeparator(args.url_string) # https
  /\ HasSeparator(Remainder(args.url_string))

\* the first "/" of r stands at character i
FirstSlash(r, i) == r[i] = "/" /\ \A j \in 1..(i - 1) : r[j] # "/"
HasSlash(r) == \E i \in 1..Len(r) : r[i] = "/"

\* the part of r before its first "/", all of r when it has none
HostCandidate(r) ==
  IF HasSlash(r) THEN SubSeq(r, 1, (CHOOSE i \in 1..Len(r) : FirstSlash(r, i)) - 1) ELSE r

\* C12: the path of a decomposed non-empty URL string is non-empty and begins
\* with "/": it is "/" when the scheme-stripped remainder holds no "/", and the
\* remainder from its first "/" onward, unchanged, otherwise.
PathFromFirstSlash ==
  Decomposed =>
    LET r == Remainder(self.url_string)
    IN /\ self.path # None /\ self.path # <<>> /\ self.path[1] = "/"
       /\ ~HasSlash(r) => self.path = <<"/">>
       /\ \A i \in 1..Len(r) : FirstSlash(r, i) => self.path = SubSeq(r, i, Len(r))

PathFromFirstSlash_witness ==
  /\ Decomposed /\ HasSeparator(self.url_string)
  /\ Remainder(self.url_string) = <<"h", "/", "?">>
  /\ self.path = <<"/", "?">>

\* C13: the host of a decomposed non-empty URL string is a non-empty string.
HostNonEmpty ==
  Decomposed => self.host # None /\ self.host # <<>>

\* C14: the host of a decomposed URL string holds neither "?" nor "#": it is the
\* part of the scheme-stripped remainder before the first "/", cut at the first
\* "?" or "#" in it.
HostWithoutQueryOrFragment ==
  Decomposed =>
    LET c == HostCandidate(Remainder(self.url_string))
        n == Len(self.host)
    IN /\ self.host # None
       /\ \A i \in 1..n : self.host[i] \notin {"?", "#"}
       /\ n <= Len(c) /\ self.host = SubSeq(c, 1, n)
       /\ n < Len(c) => c[n + 1] \in {"?", "#"}

HostWithoutQueryOrFragment_witness ==
  /\ Decomposed
  /\ Remainder(self.url_string) = <<"h", "#", "?">>
  /\ self.host = <<"h">>

-----------------------------------------------------------------------------
(* The exchange                                                            *)

HasColon(h) == \E i \in 1..Len(h) : h[i] = ":"
FirstColon(h) == CHOOSE i \in 1..Len(h) : h[i] = ":" /\ \A j \in 1..(i - 1) : h[j] # ":"

\* the text after the first ":" of the host h
PortText(h) == SubSeq(h, FirstColon(h) + 1, Len(h))

\* the target can be resolved: the host names no port, or names one in digits
Resolvable(h) == HasColon(h) => IsNumber(PortText(h))

\* C15: a call on a decomposed URL connects to the text before the first ":" of
\* its host, on the port written after it, when the host holds a ":"; and to the
\* host on port 443 for https and 80 for http when it holds none. The connection
\* is attempted with that target and no other.
TargetResolved ==
  (Decomposed /\ calls > 0 /\ Resolvable(self.host)) =>
    /\ pc = "Failed" => sock # "none"
    /\ local.port # NoInt
    /\ IF HasColon(self.host)
       THEN /\ local.host = SubSeq(self.host, 1, FirstColon(self.host) - 1)
            /\ PortText(self.host) = str(local.port[1])
       ELSE /\ local.host = self.host
            /\ self.scheme = https => local.port = <<HTTPS_PORT>>
            /\ self.scheme = http => local.port = <<HTTP_PORT>>

TargetResolved_witness ==
  /\ Decomposed /\ sock = "open"
  /\ self.scheme = https /\ self.host = <<"h", ":", "8">>
  /\ local.host = <<"h">> /\ local.port = <<8>>

\* the states of one exchange, in order; the model's BodyRead, in which the body
\* has been read and the connection is about to be closed, is part of BodyReading
Order ==
  <<"Idle", "Connecting", "Connected", "RequestSent", "StatusRead", "HeadersRead",
    "BodyReading", "Complete">>
Phase(p) == IF p = "BodyRead" THEN "BodyReading" ELSE p
Rank(p) == CHOOSE i \in 1..Len(Order) : Order[i] = Phase(p)
InExchange(p) == \E i \in 1..Len(Order) : Order[i] = Phase(p)

\* a step of the exchange of one call: to the next state, a further turn of the
\* header loop or of the body reading, or to Failed from any state but Complete
ExchangeStep ==
  /\ pc \notin {"Complete", "Failed"}
  /\ \/ InExchange(pc') /\ Rank(pc') = Rank(pc) + 1
     \/ Phase(pc') = Phase(pc) /\ Phase(pc) \in {"StatusRead", "BodyReading"}
     \/ pc' = "Failed"

\* a call begins a new exchange: it leaves Idle for Connecting or for Failed
ExchangeBegins ==
  /\ pc \in {"Idle", "Complete", "Failed"}
  /\ pc' \in {"Connecting", "Failed"}
  /\ sock' = "none" /\ sends' = 0 /\ rpos' = 0

\* what has been done by the time the exchange is in each state; a state other
\* than Complete and Failed has a step to take
ExchangeEffects ==
  /\ fds.opened <= calls /\ sends <= 1
  /\ pc = "Complete" <=> Len(result) = 1
  /\ pc \in {"Failed", "Rejected"} <=> raised # NoException
  /\ pc = "Idle" => calls < Len(args.script)
  /\ (InExchange(pc) /\ calls > 0) =>
       /\ Rank(pc) >= Rank("Connected") <=> sock # "none"
       /\ Rank(pc) >= Rank("RequestSent") <=> sends = 1
       /\ Rank(pc) >= Rank("StatusRead") <=> status_line # None
       /\ Rank(pc) <= Rank("RequestSent") => rpos = 0 /\ headers = <<>>
       /\ Rank(pc) >= Rank("BodyReading") <=> framing # "none"
       /\ Rank(pc) <= Rank("HeadersRead") => body = <<>>
       /\ pc = "Complete" <=> sock = "closed"

\* C16: an exchange passes through Idle, Connecting, Connected, RequestSent,
\* StatusRead, HeadersRead, BodyReading, Complete in that order, skipping none
\* and never going back; it ends in Complete or in Failed, which is entered from
\* the state of the failure and never from Complete; and a call attempts at most
\* one connection and writes the request at most once.
ExchangeInOrder ==
  [][/\ pc # "Start" =>
          IF calls' = calls THEN ExchangeStep ELSE calls' = calls + 1 /\ ExchangeBegins
     /\ ExchangeEffects']_vars

ExchangeInOrder_witness ==
  /\ pc = "Complete" /\ calls = 2 /\ fds.opened = 2 /\ sends = 1
  /\ Len(headers) >= 1 /\ body # <<>>

\* the send has returned and the exchange has gone on to the response
ReadingBegan == sends = 1 /\ (pc = "RequestSent" \/ status_line # None \/ rpos > 0)

\* C17: the serialized request is written in one write, and all of its bytes are
\* written before the status line is read, also when the transport accepts only
\* part of the bytes offered to one write.
RequestWrittenBeforeReading ==
  /\ sends <= 1
  /\ ReadingBegan =>
       /\ request = serialize(local.method, local.host, local.path, local.data,
                              local.content_type)
       /\ wire = encode(request)

-----------------------------------------------------------------------------
(* The header block, read off the peer's stream rather than off the parse  *)

\* name and value of the header line l: the text before and after its first ":"
FieldName(l) == strip(SubSeq(decode(l), 1, FirstColon(decode(l)) - 1))
FieldValue(l) == strip(SubSeq(decode(l), FirstColon(decode(l)) + 1, Len(decode(l))))

HeadersAreRead == InExchange(pc) /\ calls > 0 /\ Rank(pc) >= Rank("HeadersRead")

\* C18: header reading stops at the first empty line; each header line is split
\* at its first ":" into name and value, both trimmed; the mapping holds one
\* entry for each name received, with the value of the last line of that name.
HeadersReadToEmptyLine ==
  HeadersAreRead =>
    LET ls == SentHeaderLines
        fields == {i \in 1..Len(ls) : HasColon(decode(ls[i]))}
    IN /\ pc = "HeadersRead" => rpos = SentHeadLength
       /\ \A i \in fields : has(headers, FieldName(ls[i]))
       /\ \A k \in 1..Len(headers) :
            /\ \A j \in 1..Len(headers) : headers[j][1] = headers[k][1] => j = k
            /\ \E i \in fields :
                 /\ FieldName(ls[i]) = headers[k][1]
                 /\ FieldValue(ls[i]) = headers[k][2]
                 /\ \A j \in fields : j > i => FieldName(ls[j]) # headers[k][1]

\* C19: once constructed, the URL object is not changed by any call, whether the
\* call returns or raises and whether or not the host names a port, so that a
\* further call resolves the target the call before it resolved.
URLNeverMutated ==
  [][pc # "Start" =>
       /\ self' = self
       /\ (calls' = calls + 1 /\ calls >= 1) =>
            /\ local'.host = local.host
            /\ local'.port = local.port
            /\ local'.path = local.path]_vars

URLNeverMutated_witness ==
  /\ calls = 2 /\ pc = "Complete" /\ fds.opened = 2
  /\ self.host = <<"h", ":", "8">> /\ self.port = NoInt
  /\ local.host = <<"h">> /\ local.port = <<8>>

-----------------------------------------------------------------------------
(* The chunk loop                                                          *)

\* the chunk loop is running on a stream that the peer closes after its last byte
InChunkLoop == pc = "BodyReading" /\ framing = "chunked" /\ net.ending = "close"

\* what is left for the loop to do: the bytes not yet read, and the data of the
\* chunk whose size line has been read
LoopVariant == 2 * (Len(net.stream) - rpos) + (IF chunk_size # NoInt THEN 1 ELSE 0)

\* every turn of the chunk loop leaves less to do, so the loop comes to an end,
\* by returning a body or by raising
ChunkLoopTerminates ==
  [][InChunkLoop =>
       \/ pc' \in {"BodyRead", "Failed"}
       \/ pc' = "BodyReading" /\ LoopVariant' < LoopVariant /\ LoopVariant' >= 0]_vars

\* C20: on a stream that the peer closes, whatever its bytes, the chunk loop
\* exits and returns a body: every turn either returns the body or leaves less
\* of the stream to read, and none raises.
ChunkLoopReturnsBody ==
  [][InChunkLoop =>
       \/ pc' = "BodyRead"
       \/ pc' = "BodyReading" /\ LoopVariant' < LoopVariant /\ LoopVariant' >= 0]_vars

====
